---------------------------- MODULE Spec2Model ----------------------------
(***************************************************************************)
(* Model of the library backend's recommendation path:                     *)
(*   app/recommendations.py  get_recommendations(user_borrowed_books,      *)
(*                                               all_books)                *)
(*   app/crud.py             get_recommendations(db, user_id, limit)       *)
(* and of the loans the recommender reads its history from:                *)
(*   app/main.py, app/crud.py  borrow, return, renew, borrowed-books list  *)
(* Spec runs one call on any arguments; SpecLibrary runs the requests of    *)
(* the service interleaved, on the tables as they grow; SpecLoans runs the *)
(* loan endpoints and a recommendation request on those tables.            *)
(* Texts are sequences of word tokens; TF-IDF weights and cosine           *)
(* similarities are computed in fixed point (three decimal digits per      *)
(* factor), the way the floating point pipeline computes them.             *)
(***************************************************************************)
EXTENDS Integers, Sequences, FiniteSets, TLC

VARIABLES call, argsortMemo, books, borrowed_books, listing

vars == <<call, argsortMemo, books, borrowed_books, listing>>

---------------------------------------------------------------------------
(* Bounds of the model.                                                    *)

\* longest catalog (all_books) handed to the recommender
MaxCat == 3

\* longest borrowed list (user_borrowed_books) handed to the recommender
MaxBorrowed == 2

\* the limits tried at crud.get_recommendations' slice
Limits == {-1, 0, 2, 10}

\* the requests that may be in flight at the same time
Requests == {"r1", "r2"}

\* the users of the service
Users == {"u1", "u2"}

---------------------------------------------------------------------------
(* Text values.  A column value is a Python str, modelled as the sequence  *)
(* of its whitespace separated words, or None (NaN once inside pandas).    *)

Str(toks) == [isNone |-> FALSE, toks |-> toks]

None == [isNone |-> TRUE, toks |-> <<>>]

\* pandas: Series + ' ' + Series on object columns; a missing operand
\* gives a missing result (NaN), otherwise the strings are joined
StrAdd(a, b) == IF a.isNone \/ b.isNone THEN None ELSE Str(a.toks \o b.toks)

\* all_books_df['title'] + ' ' + all_books_df['author'] + ' ' + all_books_df['genre']
Content(book) == StrAdd(StrAdd(book.title, book.author), book.genre)

\* models.Book rows as the recommender reads them (id, title, author, genre)
Dune == [id |-> 1, title |-> Str(<<"Dune">>), author |-> Str(<<"Herbert">>),
         genre |-> Str(<<"SciFi">>)]

DuneMessiah == [id |-> 2, title |-> Str(<<"Dune", "Messiah">>),
                author |-> Str(<<"Herbert">>), genre |-> Str(<<"SciFi">>)]

PrideAndPrejudice == [id |-> 3, title |-> Str(<<"Pride", "and", "Prejudice">>),
                      author |-> Str(<<"Austen">>), genre |-> Str(<<"Romance">>)]

\* a row whose title is NULL
NoTitle == [id |-> 4, title |-> None, author |-> Str(<<"Herbert">>),
            genre |-> Str(<<"SciFi">>)]

\* a row whose author is NULL and whose title is made of stop words only
NoAuthor == [id |-> 5, title |-> Str(<<"The", "and">>), author |-> None,
             genre |-> Str(<<"Romance">>)]

\* rows the API can store (schemas.BookCreate requires str fields)
StoredPool == {Dune, DuneMessiah, PrideAndPrejudice}

\* rows handed to the recommender in the function-level specification
Pool == StoredPool \cup {NoTitle, NoAuthor}

---------------------------------------------------------------------------
(* TfidfVectorizer(stop_words='english'): the analyzer.                     *)

\* str.lower() on the words of the pool
Lower(tok) ==
  CASE tok = "Dune" -> "dune"
    [] tok = "Messiah" -> "messiah"
    [] tok = "Herbert" -> "herbert"
    [] tok = "SciFi" -> "scifi"
    [] tok = "Pride" -> "pride"
    [] tok = "Prejudice" -> "prejudice"
    [] tok = "Austen" -> "austen"
    [] tok = "Romance" -> "romance"
    [] tok = "The" -> "the"
    [] OTHER -> tok

\* the words of sklearn's ENGLISH_STOP_WORDS that occur in the pool
StopWords == {"and", "the"}

\* build_analyzer(): lowercase, tokenize, drop the stop words
Analyze(toks) == SelectSeq([i \in 1..Len(toks) |-> Lower(toks[i])],
                           LAMBDA t : t \notin StopWords)

Terms(toks) == LET terms == Analyze(toks) IN {terms[i] : i \in 1..Len(terms)}

\* term frequency of t in a document
Count(t, toks) ==
  LET terms == Analyze(toks) IN Cardinality({i \in 1..Len(terms) : terms[i] = t})

---------------------------------------------------------------------------
(* Fixed point arithmetic.                                                 *)

RECURSIVE SumOver(_, _)
SumOver(S, f) ==
  IF S = {} THEN 0
  ELSE LET x == CHOOSE y \in S : TRUE IN f[x] + SumOver(S \ {x}, f)

RECURSIVE SeqSum(_)
SeqSum(s) == IF s = <<>> THEN 0 ELSE Head(s) + SeqSum(Tail(s))

RECURSIVE SqrtSearch(_, _, _)
SqrtSearch(n, lo, hi) ==
  IF lo >= hi THEN lo
  ELSE LET mid == (lo + hi + 1) \div 2
       IN IF mid * mid <= n THEN SqrtSearch(n, mid, hi)
          ELSE SqrtSearch(n, lo, mid - 1)

\* floor of the square root
Sqrt(n) == SqrtSearch(n, 0, 40000)

\* 1000 * ln(n) for n = 1..8
Ln == <<0, 693, 1099, 1386, 1609, 1792, 1946, 2079>>

---------------------------------------------------------------------------
(* The fitted vectorizer: vocabulary and idf weights of one catalog.       *)

NoVector == [t \in {} |-> 0]

Unfitted == [fitted |-> FALSE, vocabulary |-> {}, idf |-> NoVector]

\* number of documents that contain term t
DocFreq(t, docs) == Cardinality({i \in 1..Len(docs) : t \in Terms(docs[i].toks)})

\* TfidfTransformer.fit, smooth_idf: idf(t) = ln((1 + N) / (1 + df(t))) + 1
Idf(t, docs) == Ln[1 + Len(docs)] - Ln[1 + DocFreq(t, docs)] + 1000

\* TfidfVectorizer.fit: vocabulary and idf from the documents of this call
Fit(docs) ==
  LET vocabulary == UNION {Terms(docs[i].toks) : i \in 1..Len(docs)}
  IN [fitted |-> TRUE, vocabulary |-> vocabulary,
      idf |-> [t \in vocabulary |-> Idf(t, docs)]]

\* normalize(X, norm='l2'): a zero row stays zero
Normalize(x) ==
  LET norm == Sqrt(SumOver(DOMAIN x, [t \in DOMAIN x |-> x[t] * x[t]]))
  IN IF norm = 0 THEN x ELSE [t \in DOMAIN x |-> (x[t] * 1000) \div norm]

\* TfidfVectorizer.transform of one text: terms outside the vocabulary are
\* dropped, tf * idf, then the l2 norm
Transform(vectorizer, toks) ==
  Normalize([t \in vectorizer.vocabulary |-> Count(t, toks) * vectorizer.idf[t]])

\* cosine_similarity of two rows: the dot product of the normalized rows
CosineSimilarity(x, y) ==
  LET nx == Normalize(x)
      ny == Normalize(y)
      shared == DOMAIN x \cap DOMAIN y
  IN SumOver(shared, [t \in shared |-> nx[t] * ny[t]])

RECURSIVE SeqMax(_)
SeqMax(s) ==
  IF s = <<>> THEN 0
  ELSE IF Head(s) >= SeqMax(Tail(s)) THEN Head(s) ELSE SeqMax(Tail(s))

\* max(axis=0) in place of mean(axis=0)
Mean_max(column) == SeqMax(column)

\* ndarray.mean(axis=0) of one column
Mean(column) == IF column = <<>> THEN 0 ELSE SeqSum(column) \div Len(column)

\* cosine_sim.mean(axis=0): one score per catalog row, averaged over every
\* row of the borrowed frame
RecommendationScores(vectorizer, tfidf_matrix, user_borrowed_books) ==
  LET user_profile == [i \in 1..Len(user_borrowed_books) |->
                               Transform(vectorizer, user_borrowed_books[i].title.toks)]
  IN [j \in 1..Len(tfidf_matrix) |->
        Mean([i \in 1..Len(user_profile) |->
                CosineSimilarity(user_profile[i], tfidf_matrix[j])])]

---------------------------------------------------------------------------
(* Ranking.                                                                *)

IndexOrders(n) == {p \in [1..n -> 1..n] : \A i, j \in 1..n : p[i] = p[j] => i = j}

\* the results ndarray.argsort() may give: ascending, equal scores in an
\* order the sort kind and the build decide
ArgsortOrders(scores) ==
  {p \in IndexOrders(Len(scores)) :
     \A i \in 1..(Len(scores) - 1) : scores[p[i]] <= scores[p[i + 1]]}

\* a sort that breaks ties afresh on every call
Argsort_unmemoized(scores) == ArgsortOrders(scores)

\* argsort is a function of the array: the order it gave for these scores before
Argsort(scores) ==
  IF \E m \in argsortMemo : m.scores = scores
  THEN {(CHOOSE m \in argsortMemo : m.scores = scores).order}
  ELSE ArgsortOrders(scores)

\* the order left as argsort gave it: ascending
Reversed_ascending(s) == s

\* [::-1]
Reversed(s) == [i \in 1..Len(s) |-> s[Len(s) + 1 - i]]

\* user_borrowed_books_df['id'].tolist()
BorrowedIds(user_borrowed_books) ==
  {user_borrowed_books[i].id : i \in 1..Len(user_borrowed_books)}

\* the loop without its test: every index is kept
NotBorrowed_unfiltered(indices, all_books, user_borrowed_books) == indices

\* the loop of lines 27-29: keep the indices whose book id was not borrowed
NotBorrowed(indices, all_books, user_borrowed_books) ==
  SelectSeq(indices, LAMBDA idx : all_books[idx].id \notin BorrowedIds(user_borrowed_books))

\* recommended_books[:limit], Python slice semantics
Slice(s, limit) ==
  IF limit >= 0
  THEN SubSeq(s, 1, IF limit < Len(s) THEN limit ELSE Len(s))
  ELSE SubSeq(s, 1, IF Len(s) + limit > 0 THEN Len(s) + limit ELSE 0)

\* the guard left out: the pipeline runs on an empty borrowed list
NoBorrowedBooks_never(user_borrowed_books) == FALSE

\* if not user_borrowed_books
NoBorrowedBooks(user_borrowed_books) == user_borrowed_books = <<>>

---------------------------------------------------------------------------
(* argsortMemo keeps, for every score array with equal scores that argsort  *)
(* has sorted, the order it gave: argsort leaves the order of equal keys   *)
(* to the sort kind and the build, and gives the same array the same order *)
(* every time.                                                             *)
(*                                                                         *)
(* One call of crud.get_recommendations, step by step.  call[r].pc is the  *)
(* position of request r, call[r].user_id the user the endpoint computes   *)
(* it for (none when the core is called directly):                         *)
(*   "idle"    no request in flight                                        *)
(*   "called"  recommendations.get_recommendations entered (line 7)        *)
(*   "fitted"  the vectorizer is fitted on the catalog (line 16 done)      *)
(*   "scored"  recommendation_scores is computed (line 22 done)            *)
(*   "ranked"  the core returned recommended_books to crud (line 31 done)  *)
(*   "done"    crud returned recommended_books[:limit], or an exception    *)
(*             left the call                                               *)

NoOutcome == [kind |-> "none", exc |-> "", books |-> <<>>]

\* listing is the body of the last response of GET /users/me/borrowed_books/
\* and the user it was sent to; before the first one, nothing
NoListing == [user_id |-> "", rows |-> <<>>]

Returned(bs) == [kind |-> "returned", exc |-> "", books |-> bs]

Raised(exc) == [kind |-> "raised", exc |-> exc, books |-> <<>>]

IdleCall ==
  [pc |-> "idle", user_id |-> "", user_borrowed_books |-> <<>>, all_books |-> <<>>, limit |-> 0,
   vectorizer |-> Unfitted, tfidf_matrix |-> <<>>, scores |-> <<>>,
   recommended |-> <<>>, outcome |-> NoOutcome]

\* the locals of a call that has just been entered with these arguments
Entered(user_borrowed_books, all_books) ==
  [IdleCall EXCEPT !.pc = "called", !.user_borrowed_books = user_borrowed_books,
                   !.all_books = all_books]

\* an exception leaves recommendations.get_recommendations and crud
Raise(c, exc) == [c EXCEPT !.pc = "done", !.outcome = Raised(exc)]

\* one vectorizer kept for the process: the one another request fitted last
VectorizerOf_shared(r) ==
  IF \E v \in Requests \ {r} : call[v].vectorizer.fitted
  THEN call[CHOOSE v \in Requests \ {r} : call[v].vectorizer.fitted].vectorizer
  ELSE call[r].vectorizer

\* the vectorizer a call transforms the borrowed titles with: its own local
VectorizerOf(r) == call[r].vectorizer

\* lines 7-8: if not user_borrowed_books: return []
ShortCircuit(r) ==
  /\ call[r].pc = "called"
  /\ NoBorrowedBooks(call[r].user_borrowed_books)
  /\ call' = [call EXCEPT ![r].pc = "ranked", ![r].recommended = <<>>]
  /\ UNCHANGED <<argsortMemo, books, borrowed_books, listing>>

\* the content column written into the book rows' titles instead of the frame
Featurize_inplace(r) ==
  LET c == call[r]
      content == [i \in 1..Len(c.all_books) |-> Content(c.all_books[i])]
      fitted == Fit(content)
  IN /\ c.pc = "called"
     /\ ~NoBorrowedBooks(c.user_borrowed_books)
     /\ call' = [call EXCEPT ![r] =
          IF c.all_books = <<>>
          THEN Raise(c, "KeyError")
          ELSE IF \E i \in 1..Len(content) : content[i].isNone
          THEN Raise(c, "ValueError")
          ELSE IF fitted.vocabulary = {}
          THEN Raise(c, "ValueError")
          ELSE [c EXCEPT !.pc = "fitted", !.vectorizer = fitted,
                         !.all_books = [i \in 1..Len(content) |->
                                          [c.all_books[i] EXCEPT !.title = content[i]]],
                         !.tfidf_matrix = [i \in 1..Len(content) |->
                                             Transform(fitted, content[i].toks)]]]
     /\ UNCHANGED <<argsortMemo, books, borrowed_books, listing>>

\* lines 10-16: the frames, the content column, fit_transform.  The frames
\* are built from the rows' values and the content column is a column of the
\* frame: the lists passed in and their rows stay as they were
Featurize(r) ==
  LET c == call[r]
      content == [i \in 1..Len(c.all_books) |-> Content(c.all_books[i])]
      fitted == Fit(content)
  IN /\ c.pc = "called"
     /\ ~NoBorrowedBooks(c.user_borrowed_books)
     /\ call' = [call EXCEPT ![r] =
          IF c.all_books = <<>>
          THEN Raise(c, "KeyError")        \* all_books_df['title'] of a frame without columns
          ELSE IF \E i \in 1..Len(content) : content[i].isNone
          THEN Raise(c, "ValueError")      \* np.nan is an invalid document
          ELSE IF fitted.vocabulary = {}
          THEN Raise(c, "ValueError")      \* empty vocabulary
          ELSE [c EXCEPT !.pc = "fitted", !.vectorizer = fitted,
                         !.tfidf_matrix = [i \in 1..Len(content) |->
                                             Transform(fitted, content[i].toks)]]]
     /\ UNCHANGED <<argsortMemo, books, borrowed_books, listing>>

\* lines 18-22: transform the borrowed titles, cosine_similarity, mean(axis=0)
Score(r) ==
  LET c == call[r]
  IN /\ c.pc = "fitted"
     /\ call' = [call EXCEPT ![r] =
          IF \E i \in 1..Len(c.user_borrowed_books) : c.user_borrowed_books[i].title.isNone
          THEN Raise(c, "AttributeError")  \* None has no lower()
          ELSE [c EXCEPT !.pc = "scored",
                         !.scores = RecommendationScores(VectorizerOf(r), c.tfidf_matrix,
                                                         c.user_borrowed_books)]]
     /\ UNCHANGED <<argsortMemo, books, borrowed_books, listing>>

\* lines 24-31: argsort()[::-1], then the filtering loop
Rank(r) ==
  LET c == call[r]
  IN /\ c.pc = "scored"
     /\ \E order \in Argsort(c.scores) :
          /\ call' = [call EXCEPT ![r].pc = "ranked",
                        ![r].recommended = NotBorrowed(Reversed(order), c.all_books,
                                                       c.user_borrowed_books)]
          /\ argsortMemo' = IF Cardinality(ArgsortOrders(c.scores)) > 1
                            THEN argsortMemo \cup {[scores |-> c.scores, order |-> order]}
                            ELSE argsortMemo
     /\ UNCHANGED <<books, borrowed_books, listing>>

\* crud.py line 142: return recommended_books[:limit]
Truncate(r, limit) ==
  LET c == call[r]
      kept == Slice(c.recommended, limit)
  IN /\ c.pc = "ranked"
     /\ call' = [call EXCEPT ![r].pc = "done", ![r].limit = limit,
                   ![r].outcome = Returned([i \in 1..Len(kept) |-> c.all_books[kept[i]]])]
     /\ UNCHANGED <<argsortMemo, books, borrowed_books, listing>>

---------------------------------------------------------------------------
(* Spec: one call of the recommender on any borrowed list and catalog of   *)
(* the pool, with any limit.                                               *)

SeqsUpTo(S, n) == UNION {[1..k -> S] : k \in 0..n}

Init ==
  /\ \E b \in SeqsUpTo(Pool, MaxBorrowed), c \in SeqsUpTo(Pool, MaxCat) :
       call = [r \in Requests |-> IF r = "r1" THEN Entered(b, c) ELSE IdleCall]
  /\ argsortMemo = {}
  /\ books = <<>>
  /\ borrowed_books = <<>>
  /\ listing = NoListing

Next ==
  \/ ShortCircuit("r1")
  \/ Featurize("r1")
  \/ Score("r1")
  \/ Rank("r1")
  \/ \E limit \in Limits : Truncate("r1", limit)

Spec == Init /\ [][Next]_vars

---------------------------------------------------------------------------
(* SpecLibrary: the service.  Books are created, users borrow them, and    *)
(* recommendation requests run step by step, interleaved with each other   *)
(* and with the writes to the tables.                                      *)

\* the default of crud.get_recommendations' limit; the endpoint passes none
DefaultLimit == 10

\* most rows of the borrowed_books table
MaxBorrowRows == 1

\* crud.create_book: the table assigns the next id (no row is deleted here),
\* so the rows of the pool are stored in the order of their ids
CreateBook(b) ==
  /\ Len(books) < MaxCat
  /\ b.id = Len(books) + 1
  /\ books' = Append(books, b)
  /\ UNCHANGED <<call, argsortMemo, borrowed_books, listing>>

\* dates are day numbers; a NULL date column is NoDate
NoDate == 0

\* date.today() of the run
Today == 15

\* the due_date sent with a borrow request
LoanDue == 20

\* the new_due_date sent with a renew request
RenewedDue == 30

\* main.borrow_book and crud.create_borrowed_book: the book and the user
\* exist; the row takes the fields of the request body, returned_date at its
\* default None
BorrowBook(user_id, book_id, due_date) ==
  /\ Len(borrowed_books) < MaxBorrowRows
  /\ \E i \in 1..Len(books) : books[i].id = book_id
  /\ borrowed_books' = Append(borrowed_books,
       [id |-> Len(borrowed_books) + 1, book_id |-> book_id, user_id |-> user_id,
        due_date |-> due_date, returned_date |-> NoDate])
  /\ UNCHANGED <<call, argsortMemo, books, listing>>

\* the query with a filter on returned_date IS NULL: the books held now
UserBorrowedBooks_current(user_id) ==
  SelectSeq(books, LAMBDA b : \E i \in 1..Len(borrowed_books) :
                                /\ borrowed_books[i].book_id = b.id
                                /\ borrowed_books[i].user_id = user_id
                                /\ borrowed_books[i].returned_date = NoDate)

\* crud.py line 137: db.query(Book).join(BorrowedBook).filter(user_id == ...).all()
\* (the legacy Query returns each Book entity once); returned_date is not read
UserBorrowedBooks(user_id) ==
  SelectSeq(books, LAMBDA b : \E i \in 1..Len(borrowed_books) :
                                /\ borrowed_books[i].book_id = b.id
                                /\ borrowed_books[i].user_id = user_id)

\* main.get_my_recommendations, crud.py lines 137-140: both queries, then the
\* core is entered with the two lists
StartRecommend(r, user_id) ==
  /\ call[r].pc = "idle"
  /\ call' = [call EXCEPT ![r] = [Entered(UserBorrowedBooks(user_id), books)
                                    EXCEPT !.user_id = user_id]]
  /\ UNCHANGED <<argsortMemo, books, borrowed_books, listing>>

\* the response is sent and the call's locals are dropped
Respond(r) ==
  /\ call[r].pc = "done"
  /\ call' = [call EXCEPT ![r] = IdleCall]
  /\ UNCHANGED <<argsortMemo, books, borrowed_books, listing>>

InitLibrary ==
  /\ call = [r \in Requests |-> IdleCall]
  /\ argsortMemo = {}
  /\ books = <<>>
  /\ borrowed_books = <<>>
  /\ listing = NoListing

NextLibrary ==
  \/ \E b \in StoredPool : CreateBook(b)
  \/ \E u \in Users, book_id \in 1..MaxCat : BorrowBook(u, book_id, LoanDue)
  \/ \E r \in Requests :
       \/ \E u \in Users : StartRecommend(r, u)
       \/ ShortCircuit(r)
       \/ Featurize(r)
       \/ Score(r)
       \/ Rank(r)
       \/ Truncate(r, DefaultLimit)
       \/ Respond(r)

SpecLibrary == InitLibrary /\ [][NextLibrary]_vars

---------------------------------------------------------------------------
(* SpecLoans: the loan endpoints.  Users borrow books, staff return them,   *)
(* users renew them and list what they hold, and a recommendation request  *)
(* runs on the same tables.                                                *)

\* the default of get_borrowed_books_by_user's limit; the endpoint passes none
DefaultPage == 100

\* models.BorrowedBook.returned_date is None: Python's identity test of the
\* column attribute against None, evaluated when the query is built; the
\* attribute is not None, whatever the rows hold
ReturnedDateIsNone == FALSE

\* Query.offset(skip).limit(limit)
OffsetLimit(rows, skip, limit) ==
  SubSeq(rows, skip + 1, IF skip + limit < Len(rows) THEN skip + limit ELSE Len(rows))

\* crud.get_borrowed_books_by_user: filter(user_id == ..., <the test above>)
GetBorrowedBooksByUser(user_id, skip, limit) ==
  OffsetLimit(SelectSeq(borrowed_books,
                        LAMBDA row : row.user_id = user_id /\ ReturnedDateIsNone),
              skip, limit)

\* main.read_my_borrowed_books: the listing of the authenticated user
ReadMyBorrowedBooks(current_user) ==
  /\ listing' = [user_id |-> current_user,
                 rows |-> GetBorrowedBooksByUser(current_user, 0, DefaultPage)]
  /\ UNCHANGED <<call, argsortMemo, books, borrowed_books>>

\* main.return_book and crud.return_borrowed_book: the row with this id gets
\* returned_date = date.today(); without such a row the answer is 404
ReturnBook(borrowed_book_id) ==
  /\ borrowed_book_id \in 1..Len(borrowed_books)
  /\ borrowed_books' = [borrowed_books EXCEPT ![borrowed_book_id].returned_date = Today]
  /\ UNCHANGED <<call, argsortMemo, books, listing>>

\* main.renew_borrow_book and crud.renew_borrowed_book: the row with this id
\* gets the new due date; current_user is resolved by the dependency and not
\* read again; without such a row the answer is 404
RenewBorrowBook(current_user, borrowed_book_id, new_due_date) ==
  /\ current_user \in Users
  /\ borrowed_book_id \in 1..Len(borrowed_books)
  /\ borrowed_books' = [borrowed_books EXCEPT ![borrowed_book_id].due_date = new_due_date]
  /\ UNCHANGED <<call, argsortMemo, books, listing>>

InitLoans ==
  /\ call = [r \in Requests |-> IdleCall]
  /\ argsortMemo = {}
  /\ books = <<>>
  /\ borrowed_books = <<>>
  /\ listing = NoListing

NextLoans ==
  \/ \E b \in StoredPool : CreateBook(b)
  \/ \E u \in Users, book_id \in 1..MaxCat : BorrowBook(u, book_id, LoanDue)
  \/ \E id \in 1..MaxBorrowRows : ReturnBook(id)
  \/ \E u \in Users, id \in 1..MaxBorrowRows : RenewBorrowBook(u, id, RenewedDue)
  \/ \E u \in Users : ReadMyBorrowedBooks(u)
  \/ \E u \in Users : StartRecommend("r1", u)
  \/ ShortCircuit("r1")
  \/ Featurize("r1")
  \/ Score("r1")
  \/ Rank("r1")
  \/ Truncate("r1", DefaultLimit)
  \/ Respond("r1")

SpecLoans == InitLoans /\ [][NextLoans]_vars

---------------------------------------------------------------------------
(* What the claims read from a call.                                       *)

\* the catalog indices of the books a call returned, in output order
ReturnedIdx(c) == SubSeq(c.recommended, 1, Len(c.outcome.books))

\* the catalog indices whose id is not in the borrowed list
UnborrowedIdx(c) ==
  {i \in 1..Len(c.all_books) : c.all_books[i].id \notin BorrowedIds(c.user_borrowed_books)}

HasNone(book) == book.title.isNone \/ book.author.isNone \/ book.genre.isNone

AnyNone(bs) == \E i \in 1..Len(bs) : HasNone(bs[i])

Max0(k) == IF k > 0 THEN k ELSE 0

\* the arguments the callers are meant to pass: no null text, and a catalog
\* in which every id stands once
WellFormed(c) ==
  /\ ~AnyNone(c.user_borrowed_books)
  /\ ~AnyNone(c.all_books)
  /\ \A i, j \in 1..Len(c.all_books) : c.all_books[i].id = c.all_books[j].id => i = j

\* C1: no book a call returns has an id that is in the call's borrowed list
NoSelfRecommendation ==
  \A r \in Requests :
    call[r].outcome.kind = "returned" =>
      \A i \in 1..Len(call[r].outcome.books) :
        \A j \in 1..Len(call[r].user_borrowed_books) :
          call[r].outcome.books[i].id # call[r].user_borrowed_books[j].id

\* a call returned books although a borrowed id stands twice in its catalog
NoSelfRecommendationWitness ==
  \E r \in Requests :
    /\ call[r].outcome.kind = "returned"
    /\ call[r].outcome.books # <<>>
    /\ \E i, j \in 1..Len(call[r].all_books) :
         /\ i # j
         /\ call[r].all_books[i].id = call[r].all_books[j].id
         /\ call[r].all_books[i].id \in BorrowedIds(call[r].user_borrowed_books)

\* C2: a call (already one with well-formed arguments) returns at most
\* max(limit, 0) books, none when limit <= 0
LimitRespected ==
  \A r \in Requests :
    (call[r].outcome.kind = "returned" /\ WellFormed(call[r])) =>
      Len(call[r].outcome.books) <= Max0(call[r].limit)

\* C3: with a non-empty borrowed list of well-formed books, a well-formed
\* catalog and a limit of at least the number of unborrowed catalog items,
\* the call raises nothing and returns every unborrowed catalog item
\* exactly once and nothing else
MonotonicExhaustion ==
  \A r \in Requests :
    LET c == call[r]
        idx == ReturnedIdx(c)
    IN (/\ c.pc = "done"
        /\ c.user_borrowed_books # <<>>
        /\ WellFormed(c))
       => /\ c.outcome.kind = "returned"
          /\ c.limit >= Cardinality(UnborrowedIdx(c)) =>
               /\ {idx[i] : i \in 1..Len(idx)} = UnborrowedIdx(c)
               /\ Len(idx) = Cardinality(UnborrowedIdx(c))

\* C4: a call with a non-empty borrowed list (of well-formed books) and an
\* empty catalog returns the empty sequence and raises nothing
EmptyCatalogDegeneracy ==
  \A r \in Requests :
    (/\ call[r].pc = "done"
     /\ call[r].user_borrowed_books # <<>>
     /\ WellFormed(call[r])
     /\ call[r].all_books = <<>>)
    => call[r].outcome = Returned(<<>>)

\* C5: of two books with equal scores that a call (with well-formed
\* arguments) returned, the one that stands earlier in the catalog stands
\* earlier in the output
TieBreakStability ==
  \A r \in Requests :
    LET c == call[r]
        idx == ReturnedIdx(c)
    IN (c.outcome.kind = "returned" /\ c.scores # <<>> /\ WellFormed(c)) =>
         \A p, q \in 1..Len(idx) :
           (p < q /\ c.scores[idx[p]] = c.scores[idx[q]]) => idx[p] < idx[q]

\* the similarities of catalog row j to every row of the borrowed list,
\* taken from the call's own vectorizer and matrix
Similarities(c, j) ==
  [i \in 1..Len(c.user_borrowed_books) |->
     CosineSimilarity(Transform(c.vectorizer, c.user_borrowed_books[i].title.toks),
                      c.tfidf_matrix[j])]

EmptyBorrowedShortCircuit ==
  \A r \in Requests :
    LET c == call[r]
    IN (c.pc # "idle" /\ c.user_borrowed_books = <<>>) =>
         /\ c.pc \in {"called", "ranked", "done"}
         /\ c.vectorizer = Unfitted
         /\ c.tfidf_matrix = <<>>
         /\ c.scores = <<>>
         /\ c.pc = "ranked" => c.recommended = <<>>
         /\ c.pc = "done" => c.outcome = Returned(<<>>)

\* a call with an empty borrowed list, a catalog and a positive limit is done
EmptyBorrowedShortCircuitWitness ==
  \E r \in Requests :
    /\ call[r].pc = "done"
    /\ call[r].user_borrowed_books = <<>>
    /\ call[r].all_books # <<>>
    /\ call[r].limit > 0

\* C8: a call with a non-empty borrowed list in which a catalog book or a
\* borrowed book has a null title, author or genre ends raising an error; at
\* the least it returns no ranking
NullFieldsFailFast ==
  \A r \in Requests :
    LET c == call[r]
    IN (/\ c.pc = "done"
        /\ c.user_borrowed_books # <<>>
        /\ (AnyNone(c.user_borrowed_books) \/ AnyNone(c.all_books)))
       => (c.outcome.kind = "raised" \/ c.outcome.books = <<>>)

SameArguments(c, d) ==
  /\ c.user_borrowed_books = d.user_borrowed_books
  /\ c.all_books = d.all_books
  /\ c.limit = d.limit

AloneContent(c) == [i \in 1..Len(c.all_books) |-> Content(c.all_books[i])]

AloneVectorizer(c) == Fit(AloneContent(c))

AloneMatrix(c) ==
  LET content == AloneContent(c)
      vectorizer == Fit(content)
  IN [i \in 1..Len(c.all_books) |-> Transform(vectorizer, content[i].toks)]

AloneScores(c) ==
  LET content == AloneContent(c)
      vectorizer == Fit(content)
      tfidf_matrix == [i \in 1..Len(c.all_books) |-> Transform(vectorizer, content[i].toks)]
  IN RecommendationScores(vectorizer, tfidf_matrix, c.user_borrowed_books)

\* the book lists a call that runs alone may return
AloneResults(c) ==
  IF c.user_borrowed_books = <<>> THEN {<<>>}
  ELSE {LET kept == Slice(NotBorrowed(Reversed(order), c.all_books, c.user_borrowed_books),
                          c.limit)
        IN [i \in 1..Len(kept) |-> c.all_books[kept[i]]] :
          order \in ArgsortOrders(AloneScores(c))}

\* C10: a call interleaved with other calls fits the vectorizer and matrix,
\* computes the scores and returns a result that the same call gives alone
IsolationOfConcurrentCalls ==
  \A r \in Requests :
    LET c == call[r]
    IN /\ c.pc = "fitted" =>
            /\ c.vectorizer = AloneVectorizer(c)
            /\ c.tfidf_matrix = AloneMatrix(c)
       /\ c.pc = "scored" => c.scores = AloneScores(c)
       /\ c.outcome.kind = "returned" => c.outcome.books \in AloneResults(c)

\* a call has returned books while another call, on a different catalog
\* snapshot, holds a different fitted vectorizer
IsolationOfConcurrentCallsWitness ==
  \E r, q \in Requests :
    /\ r # q
    /\ call[r].outcome.kind = "returned"
    /\ call[r].outcome.books # <<>>
    /\ call[q].vectorizer.fitted
    /\ call[q].all_books # call[r].all_books
    /\ call[q].vectorizer # call[r].vectorizer

\* the arguments of the Dune scenario
DuneScenario(c) ==
  /\ c.user_borrowed_books = <<Dune>>
  /\ c.all_books = <<Dune, DuneMessiah, PrideAndPrejudice>>
  /\ c.limit = 2

\* C11: the call with catalog [Dune, Dune Messiah, Pride and Prejudice],
\* borrowed = [Dune] and limit 2 raises nothing and returns exactly
\* [Dune Messiah, Pride and Prejudice]: Dune Messiah has the strictly higher
\* score, and Dune is left out
DuneScenarioOutput ==
  \A r \in Requests :
    LET c == call[r]
    IN (c.pc = "done" /\ DuneScenario(c)) =>
         /\ c.outcome = Returned(<<DuneMessiah, PrideAndPrejudice>>)
         /\ c.scores[2] > c.scores[3]
         /\ \A i \in 1..Len(c.outcome.books) : c.outcome.books[i].id # Dune.id

\* the call of the Dune scenario is done
DuneScenarioOutputWitness ==
  \E r \in Requests : call[r].pc = "done" /\ DuneScenario(call[r])

\* C12: a step of a recommendation call leaves the call's catalog list and
\* borrowed list as they were (same rows, same order, same field values), and
\* leaves the stored books and borrow records as they were
InputsReadOnly ==
  [][\A r \in Requests :
       /\ (call[r].pc # "idle" /\ call'[r].pc # "idle") =>
            /\ call'[r].all_books = call[r].all_books
            /\ call'[r].user_borrowed_books = call[r].user_borrowed_books
       /\ call'[r] # call[r] =>
            /\ books' = books
            /\ borrowed_books' = borrowed_books]_vars

\* a call on the stored books and a stored borrow record has run to its end
\* and returned books
InputsReadOnlyWitness ==
  \E r \in Requests :
    /\ call[r].outcome.kind = "returned"
    /\ call[r].outcome.books # <<>>
    /\ call[r].all_books = books
    /\ call[r].user_borrowed_books # <<>>
    /\ borrowed_books # <<>>

\* the rows of a user that are not returned
NotReturnedOf(rows, user_id) ==
  SelectSeq(rows, LAMBDA row : row.user_id = user_id /\ row.returned_date = NoDate)

\* C13: a borrowed-books listing holds exactly the borrow records of the
\* user it is sent to whose returned date is not set, up to the page size
CurrentlyBorrowedListing ==
  [][listing' # listing =>
       listing'.rows = OffsetLimit(NotReturnedOf(borrowed_books', listing'.user_id),
                                   0, DefaultPage)]_vars

\* C14: a renew request by a user for a borrow record of another user
\* leaves that record's due date as it was
RenewOnlyOwnLoans ==
  [][\A current_user \in Users, id \in 1..Len(borrowed_books) :
       (/\ RenewBorrowBook(current_user, id, RenewedDue)
        /\ borrowed_books[id].user_id # current_user)
       => borrowed_books'[id].due_date = borrowed_books[id].due_date]_vars

\* the stored books for which these rows hold a borrow record of the user,
\* returned or not
HistoryBooks(stored, rows, user_id) ==
  SelectSeq(stored, LAMBDA b : \E i \in 1..Len(rows) :
                                 rows[i].book_id = b.id /\ rows[i].user_id = user_id)

\* C15: a recommendation request of a user enters the core with every stored
\* book for which a borrow record of that user exists, returned or not; its
\* scores are the means over the titles of all the books it entered with;
\* and the books it returns include none of them
BorrowHistoryDrivesExclusion ==
  [][\A r \in Requests :
       /\ (call[r].pc = "idle" /\ call'[r].pc = "called") =>
            call'[r].user_borrowed_books = HistoryBooks(books, borrowed_books, call'[r].user_id)
       /\ (call[r].pc = "fitted" /\ call'[r].pc = "scored") =>
            call'[r].scores = RecommendationScores(call[r].vectorizer, call[r].tfidf_matrix,
                                                   call[r].user_borrowed_books)
       /\ (call[r].pc = "ranked" /\ call'[r].pc = "done") =>
            \A i \in 1..Len(call'[r].outcome.books) :
              call'[r].outcome.books[i].id \notin BorrowedIds(call[r].user_borrowed_books)]_vars

\* a request of a user who borrowed one book and returned it has returned
\* other books, ranked by a score the returned book's title gave them
BorrowHistoryDrivesExclusionWitness ==
  \E r \in Requests :
    LET c == call[r]
    IN /\ c.outcome.kind = "returned"
       /\ c.outcome.books # <<>>
       /\ Len(c.user_borrowed_books) = 1
       /\ \E i \in 1..Len(borrowed_books) :
            /\ borrowed_books[i].user_id = c.user_id
            /\ borrowed_books[i].returned_date # NoDate
            /\ borrowed_books[i].book_id = c.user_borrowed_books[1].id
       /\ \A i \in 1..Len(borrowed_books) :
            borrowed_books[i].user_id = c.user_id => borrowed_books[i].returned_date # NoDate
       /\ c.scores[ReturnedIdx(c)[1]] > 0

=============================================================================
